---- MODULE Spec2Model ----
(***************************************************************************)
(* A model of the resume optimizer: the upload dispatch of                 *)
(* DocumentProcessor.process_upload, the pipeline of                       *)
(* ResumeOptimizer.generate_tailored_resume (one full-document completion, *)
(* extract_sections, enhance_sections, combine_sections) and the handler   *)
(* optimize_resume, which writes the PDF to one fixed temporary path.      *)
(*                                                                         *)
(* Python strings are sequences of one-character strings, so that split,   *)
(* strip, lower, title, startswith, endswith and `in` are computed the way *)
(* Python computes them.  A dict is the sequence of its items in insertion *)
(* order, each item a pair <<key, value>>.                                 *)
(***************************************************************************)
EXTENDS Integers, Sequences, FiniteSets, TLC

----------------------------------------------------------------------------
(* str methods *)

\* The lowercase of each uppercase letter, and the reverse.
ToLower ==
    ("A" :> "a") @@ ("B" :> "b") @@ ("C" :> "c") @@ ("D" :> "d") @@ ("E" :> "e")
    @@ ("F" :> "f") @@ ("G" :> "g") @@ ("H" :> "h") @@ ("I" :> "i") @@ ("J" :> "j")
    @@ ("K" :> "k") @@ ("L" :> "l") @@ ("M" :> "m") @@ ("N" :> "n") @@ ("O" :> "o")
    @@ ("P" :> "p") @@ ("Q" :> "q") @@ ("R" :> "r") @@ ("S" :> "s") @@ ("T" :> "t")
    @@ ("U" :> "u") @@ ("V" :> "v") @@ ("W" :> "w") @@ ("X" :> "x") @@ ("Y" :> "y")
    @@ ("Z" :> "z")

ToUpper ==
    ("a" :> "A") @@ ("b" :> "B") @@ ("c" :> "C") @@ ("d" :> "D") @@ ("e" :> "E")
    @@ ("f" :> "F") @@ ("g" :> "G") @@ ("h" :> "H") @@ ("i" :> "I") @@ ("j" :> "J")
    @@ ("k" :> "K") @@ ("l" :> "L") @@ ("m" :> "M") @@ ("n" :> "N") @@ ("o" :> "O")
    @@ ("p" :> "P") @@ ("q" :> "Q") @@ ("r" :> "R") @@ ("s" :> "S") @@ ("t" :> "T")
    @@ ("u" :> "U") @@ ("v" :> "V") @@ ("w" :> "W") @@ ("x" :> "X") @@ ("y" :> "Y")
    @@ ("z" :> "Z")

Whitespace == {" ", "\t", "\n", "\r"}

IsCased(c) == c \in DOMAIN ToLower \/ c \in DOMAIN ToUpper

LowerChar(c) == IF c \in DOMAIN ToLower THEN ToLower[c] ELSE c

UpperChar(c) == IF c \in DOMAIN ToUpper THEN ToUpper[c] ELSE c

\* str.lower()
Lower(s) == [k \in 1..Len(s) |-> LowerChar(s[k])]

\* str.title(): a cased character is uppercased when the character before it is
\* uncased (or there is none) and lowercased otherwise.
Title(s) ==
    [k \in 1..Len(s) |->
        IF k > 1 /\ IsCased(s[k-1]) THEN LowerChar(s[k]) ELSE UpperChar(s[k])]

\* str.strip(chars): drop the longest prefix and suffix made of chars.
RECURSIVE LStrip(_, _)
LStrip(s, chars) ==
    IF s # <<>> /\ Head(s) \in chars THEN LStrip(Tail(s), chars) ELSE s

RECURSIVE RStrip(_, _)
RStrip(s, chars) ==
    IF s # <<>> /\ s[Len(s)] \in chars
    THEN RStrip(SubSeq(s, 1, Len(s) - 1), chars)
    ELSE s

StripChars(s, chars) == RStrip(LStrip(s, chars), chars)

\* str.strip()
Strip(s) == StripChars(s, Whitespace)

\* str.startswith(prefix)
StartsWith(s, prefix) ==
    Len(s) >= Len(prefix) /\ SubSeq(s, 1, Len(prefix)) = prefix

\* str.endswith(suffix)
EndsWith(s, suffix) ==
    Len(s) >= Len(suffix) /\ SubSeq(s, Len(s) - Len(suffix) + 1, Len(s)) = suffix

\* sub in s
Contains(s, sub) ==
    \E k \in 0..(Len(s) - Len(sub)) : SubSeq(s, k + 1, k + Len(sub)) = sub

\* str.split(sep) for a one-character separator: always at least one piece.
RECURSIVE Split(_, _)
Split(s, sep) ==
    IF \A k \in DOMAIN s : s[k] # sep
    THEN <<s>>
    ELSE LET k == CHOOSE j \in DOMAIN s : s[j] = sep /\ \A h \in 1..(j-1) : s[h] # sep
         IN  <<SubSeq(s, 1, k - 1)>> \o Split(SubSeq(s, k + 1, Len(s)), sep)

\* sep.join(parts)
RECURSIVE Join(_, _)
Join(parts, sep) ==
    IF parts = <<>> THEN <<>>
    ELSE IF Len(parts) = 1 THEN parts[1]
    ELSE parts[1] \o sep \o Join(Tail(parts), sep)

----------------------------------------------------------------------------
(* dict *)

Keys(d) == [n \in 1..Len(d) |-> d[n][1]]

HasKey(d, k) == \E n \in DOMAIN d : d[n][1] = k

\* d[k] = v: a key already present keeps its place and takes the new value.
DictSet(d, k, v) ==
    IF HasKey(d, k)
    THEN [n \in 1..Len(d) |-> IF d[n][1] = k THEN <<k, v>> ELSE d[n]]
    ELSE Append(d, <<k, v>>)

DictGet(d, k) == d[CHOOSE n \in DOMAIN d : d[n][1] = k][2]

----------------------------------------------------------------------------
(* ResumeOptimizer.extract_sections *)

NL == <<"\n">>

Hash == <<"#">>

\* current_section = "General"
General == <<"G","e","n","e","r","a","l">>

\* line.strip().startswith('#')
IsHeader(line) == StartsWith(Strip(line), Hash)

\* line.strip('#').strip()
HeaderName(line) == Strip(StripChars(line, {"#"}))

FlushAlways(sections, current_section, current_content) ==
    DictSet(sections, Lower(current_section), Join(current_content, NL))

\* if current_content: sections[current_section.lower()] = '\n'.join(current_content)
Flush(sections, current_section, current_content) ==
    IF current_content # <<>>
    THEN DictSet(sections, Lower(current_section), Join(current_content, NL))
    ELSE sections

\* The loop over resume_text.split('\n') and the flush of the last section.
RECURSIVE ExtractLoop(_, _, _, _)
ExtractLoop(lines, sections, current_section, current_content) ==
    IF lines = <<>>
    THEN Flush(sections, current_section, current_content)
    ELSE IF IsHeader(Head(lines))
    THEN ExtractLoop(Tail(lines),
                     Flush(sections, current_section, current_content),
                     HeaderName(Head(lines)), <<>>)
    ELSE ExtractLoop(Tail(lines), sections, current_section,
                     Append(current_content, Head(lines)))

extract_sections(resume_text) ==
    ExtractLoop(Split(resume_text, "\n"), <<>>, General, <<>>)

----------------------------------------------------------------------------
(* ResumeOptimizer.combine_sections *)

section_order ==
    << <<"s","u","m","m","a","r","y">>,
       <<"e","x","p","e","r","i","e","n","c","e">>,
       <<"s","k","i","l","l","s">>,
       <<"e","d","u","c","a","t","i","o","n">>,
       <<"c","e","r","t","i","f","i","c","a","t","i","o","n","s">>,
       <<"p","r","o","j","e","c","t","s">>,
       <<"p","u","b","l","i","c","a","t","i","o","n","s">>,
       <<"a","w","a","r","d","s">>,
       <<"l","a","n","g","u","a","g","e","s">>,
       <<"i","n","t","e","r","e","s","t","s">>
    >>

\* f"# {name.title()}\n\n{content.strip()}\n"
Block(name, content) ==
    <<"#", " ">> \o Title(name) \o <<"\n", "\n">> \o Strip(content) \o <<"\n">>

\* section in name.lower()
InName(section, name) == Contains(Lower(name), section)

\* The items the inner loop would append were it not to break: all that match.
SlotItemsNoBreak(sections, section) ==
    SelectSeq([n \in 1..Len(sections) |-> n],
              LAMBDA n : InName(section, sections[n][1]))

\* for name, content in sections.items(): if section in name.lower(): append; break
\* The indexes of the items appended for one entry of section_order: the first
\* item whose name contains it, or none.
SlotItems(sections, section) ==
    IF \E n \in DOMAIN sections : InName(section, sections[n][1])
    THEN << CHOOSE n \in DOMAIN sections :
                /\ InName(section, sections[n][1])
                /\ \A m \in 1..(n-1) : ~InName(section, sections[m][1]) >>
    ELSE <<>>

\* for section in section_order: ...
RECURSIVE OrderedItems(_, _)
OrderedItems(sections, k) ==
    IF k > Len(section_order) THEN <<>>
    ELSE SlotItems(sections, section_order[k]) \o OrderedItems(sections, k + 1)

\* if not any(section in name.lower() for section in section_order)
InNoSection(name) ==
    ~ \E k \in DOMAIN section_order : InName(section_order[k], name)

\* The items of the second loop, in the dict's own order.
RemainingItems(sections) ==
    SelectSeq([n \in 1..Len(sections) |-> n],
              LAMBDA n : InNoSection(sections[n][1]))

\* The index in sections of the item behind each element of resume_parts.
PartItems(sections) == OrderedItems(sections, 1) \o RemainingItems(sections)

resume_parts(sections) ==
    LET items == PartItems(sections) IN
    [j \in 1..Len(items) |-> Block(sections[items[j]][1], sections[items[j]][2])]

\* '\n'.join(resume_parts)
combine_sections(sections) == Join(resume_parts(sections), NL)

----------------------------------------------------------------------------
(* DocumentProcessor.process_upload *)

Dot == "."

UnsupportedPrefix ==
    <<"U","n","s","u","p","p","o","r","t","e","d"," ",
      "f","i","l","e"," ","f","o","r","m","a","t",":"," ">>

\* filename.split('.')[1], where there is one.
SecondPiece(filename) ==
    IF Len(Split(filename, Dot)) > 1 THEN Split(filename, Dot)[2] ELSE filename

\* filename.split('.')[-1]
LastPiece(filename) == Split(filename, Dot)[Len(Split(filename, Dot))]


\* The text extraction libraries are external: the text they return is the
\* file's data tagged with the extractor that read it.
extract_from_pdf(file_obj) == <<"pdfminer", file_obj.data>>

extract_from_docx(file_obj) == <<"python-docx", file_obj.data>>

extract_from_text(file_obj) == <<"utf-8", file_obj.data>>

\* The outcome of process_upload: the extracted text, or the ValueError raised.
process_upload(file_obj) ==
    LET filename == Lower(file_obj.name) IN
    IF EndsWith(filename, <<".","p","d","f">>)
    THEN [raised |-> FALSE, value |-> extract_from_pdf(file_obj)]
    ELSE IF \/ EndsWith(filename, <<".","d","o","c","x">>)
            \/ EndsWith(filename, <<".","d","o","c">>)
    THEN [raised |-> FALSE, value |-> extract_from_docx(file_obj)]
    ELSE IF EndsWith(filename, <<".","t","x","t">>)
    THEN [raised |-> FALSE, value |-> extract_from_text(file_obj)]
    ELSE [raised |-> TRUE,
          value |-> <<"ValueError", UnsupportedPrefix \o LastPiece(filename)>>]

----------------------------------------------------------------------------
(* DocumentProcessor.convert_to_formats and the handler's temporary file *)

\* markdown2 and weasyprint are external renderers: each output is its input
\* behind the renderer's mark, so different documents give different bytes.
markdown_to_html(content) == <<"<", "p", ">">> \o content

html_to_pdf(html_content) == <<"%", "P", "D", "F">> \o html_content

convert_to_formats(content) ==
    [markdown |-> content,
     html     |-> markdown_to_html(content),
     pdf      |-> html_to_pdf(markdown_to_html(content))]

pdf_path_per_call(i) == <<"tmpdir", i, "optimized_resume.pdf">>

\* os.path.join(tempfile.gettempdir(), "optimized_resume.pdf"): the same for
\* every invocation i.
pdf_path(i) == <<"tmpdir", "optimized_resume.pdf">>

\* f.write(data) on a handle opened at offset 0: the data replaces the first
\* Len(data) bytes and whatever the file holds beyond them stays.
WriteAtStart(old, data) ==
    IF Len(old) > Len(data)
    THEN data \o SubSeq(old, Len(data) + 1, Len(old))
    ELSE data

----------------------------------------------------------------------------
(* interface.optimize_resume and ResumeOptimizer.generate_tailored_resume *)

temperature_always_default(optimization_level) == "0.4"

\* {"Conservative": 0.3, "Balanced": 0.4, "Aggressive": 0.5}.get(level, 0.4)
temperature(optimization_level) ==
    CASE optimization_level = "Conservative" -> "0.3"
      [] optimization_level = "Balanced"     -> "0.4"
      [] optimization_level = "Aggressive"   -> "0.5"
      [] OTHER                               -> "0.4"

\* CONTENT_TRANSFORMATION.substitute(resume_text=..., job_description=...)
generation_prompt(resume_text, job_description) ==
    <<"CONTENT_TRANSFORMATION", resume_text, job_description>>

\* EXPERIENCE_TAILORING.substitute(experience_entries=..., requirements=...)
experience_prompt(experience_content, job_description) ==
    <<"EXPERIENCE_TAILORING", experience_content, job_description>>

\* The request get_completion sends: model defaults to "gpt-4".
Request(prompt, temp) == [prompt |-> prompt, model |-> "gpt-4", temperature |-> temp]

\* The test without .lower().
is_experience_as_written(section_name) ==
    Contains(section_name, <<"e","x","p","e","r","i","e","n","c","e">>)

\* 'experience' in section_name.lower()
is_experience(section_name) ==
    Contains(Lower(section_name), <<"e","x","p","e","r","i","e","n","c","e">>)

----------------------------------------------------------------------------
(* Bounds and the inputs drawn within them *)

\* The longest document, in lines, that is segmented on its own.
MaxLines == 4

\* The largest section mapping that is enhanced or recomposed on its own.
MaxSections == 3

\* The number of optimize_resume invocations that run at the same time.
MaxInvocations == 2

SummaryHeader == <<"#"," ","S","u","m","m","a","r","y">>

ExperienceHeader == <<"#"," ","E","x","p","e","r","i","e","n","c","e">>

WorkHeader == <<"#"," ","W","o","r","k"," ","E","x","p","e","r","i","e","n","c","e">>

VolunteerHeader ==
    <<"#","#"," ","V","o","l","u","n","t","e","e","r"," ",
      "E","x","p","e","r","i","e","n","c","e">>

\* A header that is indented and one that repeats a name in another case.
IndentedHeader == <<" ","#","#"," ","S","k","i","l","l","s">>

ClosedHeader == <<"#","#"," ","S","U","M","M","A","R","Y"," ","#">>

ALine == <<"A"," ","l","i","n","e",".">>

DidX == <<"D","i","d"," ","X",".">>

LinePool ==
    <<SummaryHeader, ALine, ExperienceHeader, DidX, <<>>, IndentedHeader, ClosedHeader>>

\* The text of the lines ls, with a final newline when nl.
Text(ls, nl) == Join(ls, NL) \o (IF nl THEN NL ELSE <<>>)

SeqsUpTo(S, n) == UNION {[1..k -> S] : k \in 0..n}

Documents ==
    {Text([k \in DOMAIN ix |-> LinePool[ix[k]]], nl) :
        ix \in SeqsUpTo(DOMAIN LinePool, MaxLines), nl \in BOOLEAN}

KeyPool ==
    << <<"s","u","m","m","a","r","y">>,
       <<"w","o","r","k"," ","e","x","p","e","r","i","e","n","c","e">>,
       <<"V","o","l","u","n","t","e","e","r"," ","E","X","P","E","R","I","E","N","C","E">>,
       <<"s","k","i","l","l","s"," ","a","n","d"," ","e","x","p","e","r","i","e","n","c","e">>,
       <<"h","o","b","b","i","e","s">>,
       <<"A","w","a","r","d","s">> >>

BodyPool == << DidX, <<" ">> \o ALine \o NL >>

\* Every dict of at most MaxSections items: distinct keys, in any order.
Mappings ==
    {[n \in DOMAIN ks |-> <<KeyPool[ks[n]], BodyPool[bs[n]]>>] :
        <<ks, bs>> \in
            {<<ks, bs>> \in SeqsUpTo(DOMAIN KeyPool, MaxSections)
                            \X SeqsUpTo(DOMAIN BodyPool, MaxSections) :
                /\ Len(ks) = Len(bs)
                /\ \A a, b \in DOMAIN ks : a # b => ks[a] # ks[b]}}

\* What the completion endpoint may answer to the full-document prompt ...
Completions ==
    { Text(<<SummaryHeader, ALine, ExperienceHeader, DidX>>, TRUE),
      Text(<<WorkHeader, DidX, VolunteerHeader, ALine>>, FALSE),
      ALine }

\* ... and to the experience prompt.
Rewrites == { <<"L","e","d"," ","X",".">>, <<"-"," ">> \o DidX \o NL }

JobDescriptions == { <<"N","e","e","d","s"," ","X",".">>, <<>> }

Levels == {"Conservative", "Balanced", "Aggressive", "Extreme"}

Filenames ==
    { <<"r","e","s","u","m","e",".","p","d","f">>,
      <<"C","V",".","P","D","F">>,
      <<"c","v",".","d","o","c","x">>,
      <<"o","l","d",".","d","o","c">>,
      <<"n","o","t","e","s",".","t","x","t">>,
      <<"r","e","s","u","m","e",".","x","y","z">>,
      <<"r","e","s","u","m","e">>,
      <<"c","v",".","p","d","f",".","B","A","K">> }

Files == {[name |-> f, data |-> "bytes"] : f \in Filenames}

----------------------------------------------------------------------------
(* State *)

VARIABLES
    pc,                 \* pc[i]: the statement invocation i executes next
    resume_file,        \* the handler's arguments
    job_description,
    optimization_level,
    resume_text,        \* processor.process_upload(resume_file)
    tailored_resume,    \* the full-document completion
    sections,           \* extract_sections(tailored_resume)
    enhanced,           \* the dict enhance_sections builds
    parts,              \* the list resume_parts that combine_sections joins
    tailored_content,   \* combine_sections(enhanced_sections)
    outputs,            \* convert_to_formats(tailored_content)
    raised,             \* the exception that ended invocation i, if any
    returned,           \* the tuple invocation i returned, if any
    trace,              \* trace[i]: the calls invocation i has made, in order
    fs                  \* the temporary directory: path -> bytes

vars == <<pc, resume_file, job_description, optimization_level, resume_text,
          tailored_resume, sections, enhanced, parts, tailored_content,
          outputs, raised, returned, trace, fs>>

NoOutputs == [markdown |-> <<>>, html |-> <<>>, pdf |-> <<>>]

NoFile == [name |-> <<>>, data |-> "bytes"]

\* The state all specifications start from, but for pc and the inputs.
Fresh(I) ==
    /\ resume_text = [i \in I |-> <<>>]
    /\ parts = [i \in I |-> <<>>]
    /\ tailored_content = [i \in I |-> <<>>]
    /\ outputs = [i \in I |-> NoOutputs]
    /\ raised = [i \in I |-> <<>>]
    /\ returned = [i \in I |-> <<>>]
    /\ trace = [i \in I |-> <<>>]
    /\ fs = <<>>

\* optimize_resume is entered, once per invocation, with any arguments.
InitHandler(I, files, levels, jobs) ==
    /\ Fresh(I)
    /\ pc = [i \in I |-> "process_upload"]
    /\ resume_file \in [I -> files]
    /\ optimization_level \in [I -> levels]
    /\ job_description \in [I -> jobs]
    /\ tailored_resume = [i \in I |-> <<>>]
    /\ sections = [i \in I |-> <<>>]
    /\ enhanced = [i \in I |-> <<>>]

----------------------------------------------------------------------------
(* The steps of one invocation *)

\* resume_text = processor.process_upload(resume_file)
ProcessUpload(i) ==
    /\ pc[i] = "process_upload"
    /\ LET r == process_upload(resume_file[i]) IN
        IF r.raised
        THEN /\ raised' = [raised EXCEPT ![i] = r.value]
             /\ pc' = [pc EXCEPT ![i] = "raised"]
             /\ UNCHANGED resume_text
        ELSE /\ resume_text' = [resume_text EXCEPT ![i] = r.value]
             /\ pc' = [pc EXCEPT ![i] = "get_completion"]
             /\ UNCHANGED raised
    /\ UNCHANGED <<parts, resume_file, job_description, optimization_level,
                   tailored_resume, sections, enhanced, tailored_content,
                   outputs, returned, trace, fs>>

GenerationRequest(i) ==
    Request(generation_prompt(resume_text[i], job_description[i]),
            temperature(optimization_level[i]))

\* tailored_resume = self.get_completion(generation_prompt, temperature=temperature)
GetCompletion(i) ==
    /\ pc[i] = "get_completion"
    /\ \E answer \in Completions :
        /\ tailored_resume' = [tailored_resume EXCEPT ![i] = answer]
        /\ trace' = [trace EXCEPT ![i] =
                        Append(@, <<"get_completion", GenerationRequest(i), "ok">>)]
    /\ pc' = [pc EXCEPT ![i] = "extract_sections"]
    /\ UNCHANGED <<parts, resume_file, job_description, optimization_level,
                   resume_text, sections, enhanced, tailored_content, outputs,
                   raised, returned, fs>>

\* The completion request fails (network, auth, quota): nothing catches it.
GetCompletionRaises(i) ==
    /\ pc[i] = "get_completion"
    /\ trace' = [trace EXCEPT ![i] =
                    Append(@, <<"get_completion", GenerationRequest(i), "raised">>)]
    /\ raised' = [raised EXCEPT ![i] = <<"APIError">>]
    /\ pc' = [pc EXCEPT ![i] = "raised"]
    /\ UNCHANGED <<parts, resume_file, job_description, optimization_level,
                   resume_text, tailored_resume, sections, enhanced,
                   tailored_content, outputs, returned, fs>>

\* sections = self.extract_sections(tailored_resume); enhance_sections starts
\* with enhanced = {}.
ExtractSections(i) ==
    /\ pc[i] = "extract_sections"
    /\ sections' = [sections EXCEPT ![i] = extract_sections(tailored_resume[i])]
    /\ enhanced' = [enhanced EXCEPT ![i] = <<>>]
    /\ trace' = [trace EXCEPT ![i] = Append(@, <<"extract_sections">>)]
    /\ pc' = [pc EXCEPT ![i] = "enhance_sections"]
    /\ UNCHANGED <<parts, resume_file, job_description, optimization_level,
                   resume_text, tailored_resume, tailored_content, outputs,
                   raised, returned, fs>>

\* The item the loop of enhance_sections is at: items are taken in the dict's
\* order and each adds one key to enhanced.
NextItem(i) == sections[i][Len(enhanced[i]) + 1]

ExperienceRequest(i) ==
    Request(experience_prompt(NextItem(i)[2], job_description[i]), "0.3")

\* else: enhanced[section_name] = content
EnhanceKeep(i) ==
    /\ pc[i] = "enhance_sections"
    /\ Len(enhanced[i]) < Len(sections[i])
    /\ ~is_experience(NextItem(i)[1])
    /\ enhanced' = [enhanced EXCEPT ![i] = DictSet(@, NextItem(i)[1], NextItem(i)[2])]
    /\ UNCHANGED <<parts, pc, resume_file, job_description, optimization_level,
                   resume_text, tailored_resume, sections, tailored_content,
                   outputs, raised, returned, trace, fs>>

\* enhanced[section_name] = self.enhance_experience(content, job_description)
EnhanceExperience(i) ==
    /\ pc[i] = "enhance_sections"
    /\ Len(enhanced[i]) < Len(sections[i])
    /\ is_experience(NextItem(i)[1])
    /\ \E answer \in Rewrites :
        /\ enhanced' = [enhanced EXCEPT ![i] = DictSet(@, NextItem(i)[1], answer)]
        /\ trace' = [trace EXCEPT ![i] =
                        Append(@, <<"get_completion", ExperienceRequest(i), "ok", answer>>)]
    /\ UNCHANGED <<parts, pc, resume_file, job_description, optimization_level,
                   resume_text, tailored_resume, sections, tailored_content,
                   outputs, raised, returned, fs>>

\* The request of enhance_experience fails: enhance_sections does not catch it.
EnhanceExperienceRaises(i) ==
    /\ pc[i] = "enhance_sections"
    /\ Len(enhanced[i]) < Len(sections[i])
    /\ is_experience(NextItem(i)[1])
    /\ trace' = [trace EXCEPT ![i] =
                    Append(@, <<"get_completion", ExperienceRequest(i), "raised">>)]
    /\ raised' = [raised EXCEPT ![i] = <<"APIError">>]
    /\ pc' = [pc EXCEPT ![i] = "raised"]
    /\ UNCHANGED <<parts, resume_file, job_description, optimization_level,
                   resume_text, tailored_resume, sections, enhanced,
                   tailored_content, outputs, returned, fs>>

\* enhance_sections returns; return self.combine_sections(enhanced_sections)
CombineSections(i) ==
    /\ pc[i] = "enhance_sections"
    /\ Len(enhanced[i]) = Len(sections[i])
    /\ parts' = [parts EXCEPT ![i] = resume_parts(enhanced[i])]
    /\ tailored_content' = [tailored_content EXCEPT ![i] = combine_sections(enhanced[i])]
    /\ trace' = [trace EXCEPT ![i] = Append(@, <<"combine_sections">>)]
    /\ pc' = [pc EXCEPT ![i] = "convert_to_formats"]
    /\ UNCHANGED <<resume_file, job_description, optimization_level,
                   resume_text, tailored_resume, sections, enhanced, outputs,
                   raised, returned, fs>>

\* outputs = processor.convert_to_formats(tailored_content, css_file=...)
ConvertToFormats(i) ==
    /\ pc[i] = "convert_to_formats"
    /\ outputs' = [outputs EXCEPT ![i] = convert_to_formats(tailored_content[i])]
    /\ pc' = [pc EXCEPT ![i] = "open"]
    /\ UNCHANGED <<parts, resume_file, job_description, optimization_level,
                   resume_text, tailored_resume, sections, enhanced,
                   tailored_content, raised, returned, trace, fs>>

FileAt(path) == IF path \in DOMAIN fs THEN fs[path] ELSE <<>>

StoreAt(path, bytes) ==
    [q \in DOMAIN fs \cup {path} |-> IF q = path THEN bytes ELSE fs[q]]

\* with open(pdf_path, "wb") as f: the file is created or truncated.
OpenPdf(i) ==
    /\ pc[i] = "open"
    /\ fs' = StoreAt(pdf_path(i), <<>>)
    /\ trace' = [trace EXCEPT ![i] = Append(@, <<"open", pdf_path(i)>>)]
    /\ pc' = [pc EXCEPT ![i] = "write"]
    /\ UNCHANGED <<parts, resume_file, job_description, optimization_level,
                   resume_text, tailored_resume, sections, enhanced,
                   tailored_content, outputs, raised, returned>>

\* f.write(outputs['pdf']), flushed as the with block closes the file.
WritePdf(i) ==
    /\ pc[i] = "write"
    /\ fs' = StoreAt(pdf_path(i), WriteAtStart(FileAt(pdf_path(i)), outputs[i].pdf))
    /\ trace' = [trace EXCEPT ![i] = Append(@, <<"write", pdf_path(i)>>)]
    /\ pc' = [pc EXCEPT ![i] = "return"]
    /\ UNCHANGED <<parts, resume_file, job_description, optimization_level,
                   resume_text, tailored_resume, sections, enhanced,
                   tailored_content, outputs, raised, returned>>

\* return (outputs['markdown'], outputs['html'], pdf_path)
Return(i) ==
    /\ pc[i] = "return"
    /\ returned' = [returned EXCEPT ![i] =
                       <<outputs[i].markdown, outputs[i].html, pdf_path(i)>>]
    /\ pc' = [pc EXCEPT ![i] = "returned"]
    /\ UNCHANGED <<parts, resume_file, job_description, optimization_level,
                   resume_text, tailored_resume, sections, enhanced,
                   tailored_content, outputs, raised, trace, fs>>

\* combine_sections applied to the mapping extract_sections returned, with no
\* enhancement in between.
Recompose(i) ==
    /\ pc[i] = "enhance_sections"
    /\ enhanced[i] = <<>>
    /\ parts' = [parts EXCEPT ![i] = resume_parts(sections[i])]
    /\ tailored_content' = [tailored_content EXCEPT ![i] = combine_sections(sections[i])]
    /\ trace' = [trace EXCEPT ![i] = Append(@, <<"combine_sections">>)]
    /\ pc' = [pc EXCEPT ![i] = "recomposed"]
    /\ UNCHANGED <<resume_file, job_description, optimization_level,
                   resume_text, tailored_resume, sections, enhanced, outputs,
                   raised, returned, fs>>

----------------------------------------------------------------------------
(* Specifications *)

\* One invocation of optimize_resume, with any file name, level and job.
Init ==
    InitHandler({1}, Files, Levels, JobDescriptions)

Next ==
    \E i \in {1} :
        \/ ProcessUpload(i)
        \/ GetCompletion(i)
        \/ GetCompletionRaises(i)
        \/ ExtractSections(i)
        \/ EnhanceKeep(i)
        \/ EnhanceExperience(i)
        \/ EnhanceExperienceRaises(i)
        \/ CombineSections(i)
        \/ ConvertToFormats(i)
        \/ OpenPdf(i)
        \/ WritePdf(i)
        \/ Return(i)

Spec == Init /\ [][Next]_vars

\* MaxInvocations invocations at once, as the web server's worker threads run
\* them: their steps interleave in any order.
Invocations == 1..MaxInvocations

ConcurrentFiles ==
    {[name |-> <<"c","v",".","t","x","t">>, data |-> "bytes"]}

InitConcurrent ==
    InitHandler(Invocations, ConcurrentFiles, {"Balanced"},
                {<<"N","e","e","d","s"," ","X",".">>})

NextConcurrent ==
    \E i \in Invocations :
        \/ ProcessUpload(i)
        \/ GetCompletion(i)
        \/ GetCompletionRaises(i)
        \/ ExtractSections(i)
        \/ EnhanceKeep(i)
        \/ EnhanceExperience(i)
        \/ EnhanceExperienceRaises(i)
        \/ CombineSections(i)
        \/ ConvertToFormats(i)
        \/ OpenPdf(i)
        \/ WritePdf(i)
        \/ Return(i)

SpecConcurrent == InitConcurrent /\ [][NextConcurrent]_vars

\* extract_sections on any document, then combine_sections on its result.
InitSegment ==
    /\ Fresh({1})
    /\ pc = [i \in {1} |-> "extract_sections"]
    /\ resume_file = [i \in {1} |-> NoFile]
    /\ optimization_level = [i \in {1} |-> "Balanced"]
    /\ job_description = [i \in {1} |-> <<>>]
    /\ tailored_resume \in [{1} -> Documents]
    /\ sections = [i \in {1} |-> <<>>]
    /\ enhanced = [i \in {1} |-> <<>>]

NextSegment == \E i \in {1} : ExtractSections(i) \/ Recompose(i)

SpecSegment == InitSegment /\ [][NextSegment]_vars

\* enhance_sections on any mapping and job description.
InitEnhance ==
    /\ Fresh({1})
    /\ pc = [i \in {1} |-> "enhance_sections"]
    /\ resume_file = [i \in {1} |-> NoFile]
    /\ optimization_level = [i \in {1} |-> "Balanced"]
    /\ job_description \in [{1} -> JobDescriptions]
    /\ tailored_resume = [i \in {1} |-> <<>>]
    /\ sections \in [{1} -> Mappings]
    /\ enhanced = [i \in {1} |-> <<>>]

NextEnhance ==
    \E i \in {1} :
        \/ EnhanceKeep(i)
        \/ EnhanceExperience(i)
        \/ EnhanceExperienceRaises(i)
        \/ CombineSections(i)

SpecEnhance == InitEnhance /\ [][NextEnhance]_vars

\* combine_sections on any mapping.
InitCombine ==
    /\ Fresh({1})
    /\ pc = [i \in {1} |-> "enhance_sections"]
    /\ resume_file = [i \in {1} |-> NoFile]
    /\ optimization_level = [i \in {1} |-> "Balanced"]
    /\ job_description = [i \in {1} |-> <<>>]
    /\ tailored_resume = [i \in {1} |-> <<>>]
    /\ \E m \in Mappings :
        /\ sections = [i \in {1} |-> m]
        /\ enhanced = [i \in {1} |-> m]

NextCombine == \E i \in {1} : CombineSections(i)

SpecCombine == InitCombine /\ [][NextCombine]_vars

----------------------------------------------------------------------------
(* What the properties are stated with.  These definitions describe a result *)
(* by positions in the text; none of them runs the code's loops.             *)

Min(S) == CHOOSE x \in S : \A y \in S : x <= y

Max(S) == CHOOSE x \in S : \A y \in S : x >= y

\* s without its longest prefix and suffix made of chars.
Trim(s, chars) ==
    LET keep == {p \in DOMAIN s : s[p] \notin chars} IN
    IF keep = {} THEN <<>> ELSE SubSeq(s, Min(keep), Max(keep))

\* word occurs in name, letter case of name aside.
Mentions(name, word) ==
    \E p \in 0..(Len(name) - Len(word)) :
        \A q \in DOMAIN word : LowerChar(name[p + q]) = word[q]

\* The elements of the set S of numbers, ascending.
RECURSIVE Ascending(_)
Ascending(S) == IF S = {} THEN <<>> ELSE <<Min(S)>> \o Ascending(S \ {Min(S)})

KeySet(d) == {d[n][1] : n \in DOMAIN d}

UniqueKeys(d) == \A a, b \in DOMAIN d : d[a][1] = d[b][1] => a = b

\* The first position after k, among those of H, or one past the last line.
NextAmong(H, ls, k) ==
    IF \E h \in H : h > k THEN Min({h \in H : h > k}) ELSE Len(ls) + 1

\* The lines strictly between position k and the next position of H.
LinesAfter(H, ls, k) == SubSeq(ls, k + 1, NextAmong(H, ls, k) - 1)

\* A line that starts with '#' ...
StartsWithHash(line) == line # <<>> /\ line[1] = "#"

\* ... and one that does so after leading whitespace, if any.
StartsWithHashIndented(line) ==
    \E p \in DOMAIN line : line[p] = "#" /\ \A q \in 1..(p-1) : line[q] \in Whitespace

\* The lowercased name of a header line: the line without the '#' at its ends,
\* trimmed.
KeyOfHeader(line) == Lower(Trim(Trim(line, {"#"}), Whitespace))

GeneralKey == <<"g","e","n","e","r","a","l">>

Extracted(i) == pc[i] \in {"enhance_sections", "recomposed"}

----------------------------------------------------------------------------
(* extract_sections: C1, C2, C8 *)

\* C1 as stated: the keys of the mapping are exactly the lowercased names of
\* the lines that start with '#', and each key's value is the join of the lines
\* strictly between a header line of that name and the next header line (or
\* the end of the text), also when there is no line between them.
C1_KeysAreExactlyTheHeaderNames ==
    \A i \in DOMAIN pc : Extracted(i) =>
        LET ls == Split(tailored_resume[i], "\n")
            H  == {k \in DOMAIN ls : StartsWithHash(ls[k])}
        IN  /\ KeySet(sections[i]) = {KeyOfHeader(ls[k]) : k \in H}
            /\ \A n \in DOMAIN sections[i] :
                \E k \in H : /\ sections[i][n][1] = KeyOfHeader(ls[k])
                             /\ sections[i][n][2] = Join(LinesAfter(H, ls, k), NL)

\* The places a section starts at: 0, the start of the text, and every header
\* line (a line whose first character other than whitespace is '#').
SectionStarts(ls) == {0} \cup {k \in DOMAIN ls : StartsWithHashIndented(ls[k])}

\* Those that at least one line follows before the next header line.
FilledStarts(ls) ==
    {k \in SectionStarts(ls) : LinesAfter(SectionStarts(ls), ls, k) # <<>>}

KeyOfStart(ls, k) == IF k = 0 THEN GeneralKey ELSE KeyOfHeader(ls[k])

\* C1, amended: the keys are the lowercased names of the header lines that at
\* least one line follows before the next header line or the end of the text,
\* and "general" when the text does not begin with a header line; a key's value
\* is the join of the lines after the last such header of that name.  A header
\* line directly followed by a header line, or ending the text, gives no key.
C1_KeysAreTheFilledSections ==
    \A i \in DOMAIN pc : Extracted(i) =>
        LET ls == Split(tailored_resume[i], "\n")
            F  == FilledStarts(ls)
        IN  /\ UniqueKeys(sections[i])
            /\ KeySet(sections[i]) = {KeyOfStart(ls, k) : k \in F}
            /\ \A k \in F :
                (\A k2 \in F : k2 > k => KeyOfStart(ls, k2) # KeyOfStart(ls, k))
                => DictGet(sections[i], KeyOfStart(ls, k))
                     = Join(LinesAfter(SectionStarts(ls), ls, k), NL)

\* A document that begins with text, has a header line directly followed by
\* another header line, and has been segmented.
C1_Witness ==
    \E i \in DOMAIN pc :
        /\ Extracted(i)
        /\ LET ls == Split(tailored_resume[i], "\n") IN
            /\ 0 \in FilledStarts(ls)
            /\ \E k \in DOMAIN ls :
                /\ k < Len(ls)
                /\ StartsWithHash(ls[k]) /\ StartsWithHash(ls[k + 1])
                /\ k + 1 \in FilledStarts(ls)
        /\ Len(sections[i]) = 2

\* A text made of header lines, each followed by one or more body lines, and
\* ended by a newline; the header names differ.
IsHeadedDocument(text) ==
    LET ls == Split(text, "\n")
        H  == {k \in DOMAIN ls : StartsWithHash(ls[k])}
    IN  /\ Len(ls) >= 3
        /\ ls[Len(ls)] = <<>>
        /\ 1 \in H
        /\ \A k \in H : k + 1 \notin H /\ k + 1 < Len(ls)
        /\ \A k \in 1..(Len(ls) - 1) : k \notin H => StartsWithHashIndented(ls[k]) = FALSE /\ ls[k] # <<>>
        /\ \A a, b \in H : KeyOfHeader(ls[a]) = KeyOfHeader(ls[b]) => a = b

\* The body lines of the header at k: those up to the next header line, the
\* empty piece after the final newline left out.
BodyOf(ls, H, k) ==
    SubSeq(ls, k + 1, IF NextAmong(H, ls, k) > Len(ls) THEN Len(ls) - 1
                      ELSE NextAmong(H, ls, k) - 1)

SpecExample ==
    Text(<<SummaryHeader, ALine, ExperienceHeader, DidX>>, TRUE)

SpecExampleRecomposed ==
    <<"#"," ","S","u","m","m","a","r","y","\n","\n","A"," ","l","i","n","e",".","\n",
      "\n",
      "#"," ","E","x","p","e","r","i","e","n","c","e","\n","\n","D","i","d"," ","X",".","\n">>

\* C2 as stated: such a document is segmented into its lowercased headers, each
\* with exactly its body lines and no trailing newline, the last section
\* included, and the example of the specification recomposes to the text given
\* there.
C2_BodiesHaveNoTrailingNewline ==
    \A i \in DOMAIN pc :
        /\ (Extracted(i) /\ IsHeadedDocument(tailored_resume[i])) =>
            LET ls == Split(tailored_resume[i], "\n")
                H  == {k \in DOMAIN ls : StartsWithHash(ls[k])}
            IN  /\ KeySet(sections[i]) = {KeyOfHeader(ls[k]) : k \in H}
                /\ \A k \in H :
                    DictGet(sections[i], KeyOfHeader(ls[k])) = Join(BodyOf(ls, H, k), NL)
        /\ (pc[i] = "recomposed" /\ tailored_resume[i] = SpecExample) =>
            tailored_content[i] = SpecExampleRecomposed

\* C8 as stated: the empty text is segmented into the empty mapping.
C8_EmptyTextGivesEmptyMapping ==
    \A i \in DOMAIN pc :
        (Extracted(i) /\ tailored_resume[i] = <<>>) => sections[i] = <<>>

----------------------------------------------------------------------------
(* combine_sections: C3, C6, C7 *)

Combined(i) == pc[i] = "convert_to_formats"

\* The entries of section_order that some key of d contains.
MatchedSlots(d) ==
    {k \in DOMAIN section_order :
        \E n \in DOMAIN d : Mentions(d[n][1], section_order[k])}

\* The items of d whose key contains no entry of section_order.
UnmatchedItems(d) ==
    {n \in DOMAIN d :
        \A k \in DOMAIN section_order : ~Mentions(d[n][1], section_order[k])}

\* The block of item n of d as it stands in the output.
BlockOf(d, n) ==
    <<"#", " ">> \o Title(d[n][1]) \o <<"\n", "\n">> \o Trim(d[n][2], Whitespace) \o <<"\n">>

\* C3: the output starts with one block for each canonical name that some key
\* contains, in the canonical order and never two for one name, each the block
\* of a key that contains the name; the blocks of the keys that contain no
\* canonical name come after all of them.
C3_CanonicalBlocksFirstOncePerName ==
    \A i \in DOMAIN pc : Combined(i) =>
        LET d     == enhanced[i]
            slots == Ascending(MatchedSlots(d))
        IN  /\ Len(parts[i]) = Len(slots) + Cardinality(UnmatchedItems(d))
            /\ \A j \in DOMAIN slots :
                \E n \in DOMAIN d : /\ Mentions(d[n][1], section_order[slots[j]])
                                    /\ parts[i][j] = BlockOf(d, n)
            /\ \A j \in (Len(slots) + 1)..Len(parts[i]) :
                \E n \in UnmatchedItems(d) : parts[i][j] = BlockOf(d, n)
            /\ tailored_content[i] = Join(parts[i], NL)

\* A recomposed mapping in which two keys contain the same canonical name and a
\* third contains none.
C3_Witness ==
    \E i \in DOMAIN pc :
        /\ Combined(i)
        /\ UnmatchedItems(enhanced[i]) # {}
        /\ \E a, b \in DOMAIN enhanced[i] :
            /\ a # b
            /\ Mentions(enhanced[i][a][1], section_order[2])
            /\ Mentions(enhanced[i][b][1], section_order[2])

\* C6 as stated: no key of the mapping produces more than one block, a key that
\* contains two canonical names included.  (The keys of a mapping differ, also
\* once titled, so the blocks of two items differ.)
C6_NoKeyEmittedTwice ==
    \A i \in DOMAIN pc : Combined(i) =>
        \A n \in DOMAIN enhanced[i] :
            Cardinality({j \in DOMAIN parts[i] : parts[i][j] = BlockOf(enhanced[i], n)}) <= 1

\* C7 as stated: every key of the mapping has its block, with its trimmed body,
\* in the output.
C7_EveryKeyHasItsBlock ==
    \A i \in DOMAIN pc : Combined(i) =>
        \A n \in DOMAIN enhanced[i] :
            \E j \in DOMAIN parts[i] : parts[i][j] = BlockOf(enhanced[i], n)

----------------------------------------------------------------------------
(* enhance_sections: C4 *)

ExperienceWord == <<"e","x","p","e","r","i","e","n","c","e">>

\* The items of d whose key contains "experience", in the dict's order.
ExperienceItems(d) ==
    Ascending({n \in DOMAIN d : Mentions(d[n][1], ExperienceWord)})

\* The requests invocation i has sent to the completion endpoint, in order.
CallsOf(i) == SelectSeq(trace[i], LAMBDA e : e[1] = "get_completion")

\* The rewrite requests among them.
RewriteCallsOf(i) ==
    SelectSeq(CallsOf(i), LAMBDA e : e[2].prompt[1] = "EXPERIENCE_TAILORING")

\* C4: when enhance_sections has returned, the result has the keys of its input;
\* a key that does not contain "experience", in any letter case, has its value
\* unchanged; each key that does has the answer of a rewrite request made with
\* its body and the job description, and there is one such request per key.
C4_OnlyExperienceRewrittenOncePerKey ==
    \A i \in DOMAIN pc : Combined(i) =>
        LET d  == sections[i]
            e  == enhanced[i]
            xs == ExperienceItems(d)
            rw == RewriteCallsOf(i)
        IN  /\ Keys(e) = Keys(d)
            /\ \A n \in DOMAIN d :
                ~Mentions(d[n][1], ExperienceWord) => e[n][2] = d[n][2]
            /\ Len(rw) = Len(xs)
            /\ \A j \in DOMAIN xs :
                /\ rw[j][2].prompt = <<"EXPERIENCE_TAILORING", d[xs[j]][2], job_description[i]>>
                /\ rw[j][3] = "ok"
                /\ e[xs[j]][2] = rw[j][4]

\* An enhanced mapping with a key that spells EXPERIENCE in capitals, rewritten,
\* and a key without the word.
C4_Witness ==
    \E i \in DOMAIN pc :
        /\ Combined(i)
        /\ \E n, m \in DOMAIN sections[i] :
            /\ Mentions(sections[i][n][1], ExperienceWord)
            /\ ~Contains(sections[i][n][1], ExperienceWord)
            /\ enhanced[i][n][2] # sections[i][n][2]
            /\ ~Mentions(sections[i][m][1], ExperienceWord)

----------------------------------------------------------------------------
(* process_upload in optimize_resume: C5 *)

HasSuffix(name, suffix) ==
    /\ Len(name) >= Len(suffix)
    /\ \A q \in DOMAIN suffix :
        LowerChar(name[Len(name) - Len(suffix) + q]) = suffix[q]

\* The lowercased text after the last '.' of name (all of it if there is none).
ExtensionOf(name) ==
    LET dots == {p \in DOMAIN name : name[p] = "."} IN
    Lower(SubSeq(name, (IF dots = {} THEN 0 ELSE Max(dots)) + 1, Len(name)))

\* The extractor each supported suffix is read with.
ExtractorFor(name) ==
    IF HasSuffix(name, <<".","p","d","f">>) THEN "pdfminer"
    ELSE IF HasSuffix(name, <<".","d","o","c","x">>) \/ HasSuffix(name, <<".","d","o","c">>)
    THEN "python-docx"
    ELSE IF HasSuffix(name, <<".","t","x","t">>) THEN "utf-8"
    ELSE "none"

\* C5: once process_upload has run, a file whose lowercased name ends in .pdf,
\* .docx, .doc or .txt has been read by the extractor of that suffix, and any
\* other file has ended the invocation with a ValueError whose message names
\* the extension, with no request sent and no file opened or written.
C5_UnsupportedSuffixRaisesBeforeAnyCall ==
    \A i \in DOMAIN pc : pc[i] # "process_upload" =>
        LET name == resume_file[i].name IN
        IF ExtractorFor(name) # "none"
        THEN /\ resume_text[i] = <<ExtractorFor(name), resume_file[i].data>>
             /\ raised[i] # <<>> => raised[i][1] # "ValueError"
        ELSE /\ pc[i] = "raised"
             /\ raised[i] = <<"ValueError", UnsupportedPrefix \o ExtensionOf(name)>>
             /\ trace[i] = <<>>
             /\ returned[i] = <<>>
             /\ fs = <<>>

\* An upload with two dots and an uppercase extension has been refused.
C5_Witness ==
    \E i \in DOMAIN pc :
        /\ pc[i] = "raised"
        /\ raised[i][1] = "ValueError"
        /\ Cardinality({p \in DOMAIN resume_file[i].name : resume_file[i].name[p] = "."}) = 2
        /\ resume_file[i].name[Len(resume_file[i].name)] \in DOMAIN ToLower

----------------------------------------------------------------------------
(* generate_tailored_resume in optimize_resume: C9 *)

Generated(i) ==
    pc[i] \in {"convert_to_formats", "open", "write", "return", "returned"}

\* The temperature of each optimization level.
LevelTemperature(level) ==
    IF level = "Conservative" THEN "0.3"
    ELSE IF level = "Aggressive" THEN "0.5"
    ELSE "0.4"

FullRequest(i) ==
    [prompt      |-> <<"CONTENT_TRANSFORMATION", resume_text[i], job_description[i]>>,
     model       |-> "gpt-4",
     temperature |-> LevelTemperature(optimization_level[i])]

RewriteRequest(i, n) ==
    [prompt      |-> <<"EXPERIENCE_TAILORING", sections[i][n][2], job_description[i]>>,
     model       |-> "gpt-4",
     temperature |-> "0.3"]

\* C9: a run that got its document made, in this order, one full-document
\* request at the level's temperature, the segmentation, one rewrite request
\* for each section whose key contains "experience", and the recomposition, and
\* no request after it; no request is ever sent again after one has failed; and
\* a run that a failed request ended has recomposed nothing, returned nothing
\* and written no file.
C9_OneFullCallThenOneRewritePerExperienceSection ==
    \A i \in DOMAIN pc :
        LET t  == trace[i]
            xs == ExperienceItems(sections[i])
            n  == Len(xs)
        IN  /\ \A j \in 1..(Len(t) - 1) : t[j][1] = "get_completion" => t[j][3] = "ok"
            /\ Generated(i) =>
                /\ Len(t) >= n + 3
                /\ t[1] = <<"get_completion", FullRequest(i), "ok">>
                /\ t[2] = <<"extract_sections">>
                /\ \A j \in 1..n :
                    /\ t[2 + j][1] = "get_completion"
                    /\ t[2 + j][2] = RewriteRequest(i, xs[j])
                    /\ t[2 + j][3] = "ok"
                /\ t[n + 3] = <<"combine_sections">>
                /\ \A j \in (n + 4)..Len(t) : t[j][1] \in {"open", "write"}
            /\ (pc[i] = "raised" /\ raised[i] = <<"APIError">>) =>
                /\ t # <<>>
                /\ t[Len(t)][1] = "get_completion" /\ t[Len(t)][3] = "raised"
                /\ t[1][2] = FullRequest(i)
                /\ Len(CallsOf(i)) <= n + 1
                /\ \A j \in DOMAIN t : t[j][1] \notin {"combine_sections", "open", "write"}
                /\ tailored_content[i] = <<>>
                /\ returned[i] = <<>>
                /\ fs = <<>>

\* A run at the level "Aggressive" that rewrote two experience sections and
\* returned.
C9_Witness ==
    \E i \in DOMAIN pc :
        /\ pc[i] = "returned"
        /\ optimization_level[i] = "Aggressive"
        /\ Len(RewriteCallsOf(i)) = 2

----------------------------------------------------------------------------
(* The temporary PDF file under concurrent invocations: C10 *)

FixedPath == <<"tmpdir", "optimized_resume.pdf">>

\* C10: every invocation opens, writes and returns the one path
\* <tmpdir>/optimized_resume.pdf, no other file is ever written, the file never
\* grows beyond the longest PDF written to it (it is overwritten, not appended
\* to), and the section mapping each invocation starts to enhance is the
\* segmentation of its own completion.
C10_OneFixedPathSharedByAllInvocations ==
    /\ DOMAIN fs \subseteq {FixedPath}
    /\ \A p \in DOMAIN fs :
        fs[p] # <<>> => \E i \in DOMAIN pc : Len(fs[p]) <= Len(outputs[i].pdf)
    /\ \A i \in DOMAIN pc :
        /\ \A j \in DOMAIN trace[i] :
            trace[i][j][1] \in {"open", "write"} => trace[i][j][2] = FixedPath
        /\ pc[i] = "returned" => returned[i][3] = FixedPath
        /\ (Extracted(i) /\ enhanced[i] = <<>>) =>
            sections[i] = extract_sections(tailored_resume[i])

\* Two invocations have written and one has returned: the path it returned
\* holds the PDF of the other, which differs from its own.
C10_Witness ==
    \E i, j \in DOMAIN pc :
        /\ i # j
        /\ pc[i] = "returned"
        /\ pc[j] \in {"return", "returned"}
        /\ outputs[i].pdf # outputs[j].pdf
        /\ returned[i][3] \in DOMAIN fs
        /\ fs[returned[i][3]] = outputs[j].pdf

====
